---- MODULE Spec2Model ----
(***************************************************************************)
(* up-mcp: the tool adapter of src/up_mcp.py as a state machine.           *)
(*                                                                         *)
(* Every tool is a coroutine                                               *)
(*     async with AsyncClient(token=UP_TOKEN) as client:                   *)
(*         <one upstream request, a paginated listing drained in full>     *)
(*         return <reshaped result>                                        *)
(* The host runtime interleaves invocations at their awaits, so one        *)
(* invocation is a frame that moves                                        *)
(*     idle -> enter -> request -> (drain ->)* exit -> done -> idle        *)
(* one step per await.  The upstream service and the clock are the         *)
(* environment: a request is answered by the service, or fails in          *)
(* transport; the clock ticks.                                             *)
(***************************************************************************)
EXTENDS Integers, Sequences, FiniteSets, TLC

\* ------------------------------------------------------------- bounds
\* Invocations the host dispatches in one behaviour.
MaxCalls == 3
\* Days that pass after the module is imported.
MaxTime == 1
\* Records per page of an upstream listing.
PageSize == 2

\* ---------------------------------------------------------- constants
\* timedelta(days=7) of the default of `since`.
SinceDays == 7

\* Frames the host runs concurrently.
Invs == {1, 2}

\* Python's None (as an argument, a field or a result).
None == "<None>"
\* `since` as the caller gives it: left out, None, or a datetime (in days).
Omitted == <<"omitted">>
NoDate == <<"none">>
At(t) == <<"at", t>>

\* --------------------------------------------------- upstream: errors
NotAuthorized == "NotAuthorizedException"
NotFound == "NotFoundException"
Transport == "TransportError"
SessionClosed == "SessionClosed"

Ok(v) == [ok |-> TRUE, value |-> v]
Err(e) == [ok |-> FALSE, error |-> e]

\* ----------------------------------------------------- upstream: data
\* The credential the service accepts, and one it rejects.
GoodToken == "up:yeah:good"
BadToken == "up:yeah:bad"
UserId == "3c1ae4b2-user"

Accounts ==
    << [id |-> "acc-1", name |-> "Spending", type |-> "TRANSACTIONAL", balance |-> 9, currency |-> "AUD"],
       [id |-> "acc-2", name |-> "Savings", type |-> "SAVER", balance |-> 250, currency |-> "AUD"],
       [id |-> "acc-3", name |-> "Holiday", type |-> "SAVER", balance |-> 0, currency |-> "AUD"] >>

\* "good-life" has one child, "booze"; "booze" has none.
Categories ==
    << [id |-> "good-life", name |-> "Good Life", parent |-> None],
       [id |-> "booze", name |-> "Booze", parent |-> "good-life"] >>

Tags ==
    << [id |-> "holiday", name |-> "holiday"],
       [id |-> "tax", name |-> "tax"],
       [id |-> "work", name |-> "work"] >>

\* The service lists transactions newest first; created_at is in days
\* relative to the import of the module (day 0).
Transactions ==
    << [id |-> "tx-3", description |-> "Claude Ai", amount |-> -34, currency |-> "AUD",
        status |-> "HELD", created_at |-> -1, account |-> "acc-1",
        category |-> None, tags |-> {}],
       [id |-> "tx-2", description |-> "Coffee", amount |-> -5, currency |-> "AUD",
        status |-> "SETTLED", created_at |-> -6, account |-> "acc-1",
        category |-> "booze", tags |-> {"holiday"}],
       [id |-> "tx-1", description |-> "Salary", amount |-> 900, currency |-> "AUD",
        status |-> "SETTLED", created_at |-> -9, account |-> "acc-2",
        category |-> None, tags |-> {"work"}] >>

\* Ids, timestamps and secret keys the service hands out, by creation number.
WebhookIdOf == <<"wh-1", "wh-2", "wh-3", "wh-4", "wh-5", "wh-6", "wh-7", "wh-8">>
CreatedAtOf == <<"2024-01-01", "2024-02-02", "day-3", "day-4", "day-5", "day-6", "day-7", "day-8">>
SecretKeyOf == <<"sk-1", "sk-2", "sk-3", "sk-4", "sk-5", "sk-6", "sk-7", "sk-8">>
\* Webhooks that exist before the adapter starts (made elsewhere).
InitialWebhooks ==
    << [n |-> 1, url |-> "https://a.example/hook", description |-> None, created_at |-> "2024-01-01"],
       [n |-> 2, url |-> "https://b.example/hook", description |-> "old", created_at |-> "2024-02-02"] >>

Ids(seq) == {seq[k].id : k \in 1..Len(seq)}
ById(seq, id) == CHOOSE r \in {seq[k] : k \in 1..Len(seq)} : r.id = id

\* ------------------------------------------------------------- state
VARIABLES
    UP_TOKEN,          \* the credential read from the environment at import
    default_since,     \* the default of get_transactions' `since`
    now,               \* the clock, in days since the import
    webhooks,          \* upstream: the webhooks that exist, oldest first
    wh_counter,        \* upstream: webhooks ever created
    open_sessions,     \* client sessions that are open
    calls,             \* invocations dispatched so far
    upstream_requests, \* logical upstream requests issued so far
    created_ret,       \* ids that a create_webhook invocation has returned
    deleted_ret,       \* ids whose delete_webhook invocation has returned
    inv,               \* the frame of each invocation
    hist               \* what is recorded about each invocation

vars == <<UP_TOKEN, default_since, now, webhooks, wh_counter, open_sessions, calls,
          upstream_requests, created_ret, deleted_ret, inv, hist>>

\* --------------------------------------------------- upstream: service
\* A webhook as the service reports it.  The secret key is in the answer
\* to the creation alone; every later reading has it blank.
WebhookObject(w, secret) ==
    [id |-> WebhookIdOf[w.n], url |-> w.url, description |-> w.description,
     secret_key |-> secret, created_at |-> w.created_at]

WebhookIds == {WebhookIdOf[webhooks[k].n] : k \in 1..Len(webhooks)}
WebhookNo(id) == CHOOSE n \in 1..Len(WebhookIdOf) : WebhookIdOf[n] = id

\* The event the service makes for a ping of a webhook.
PingEvent(id) == [type |-> "PING", webhook_id |-> id]

\* client.transactions(account=, status=, since=, until=, category=, tag=):
\* the service applies the filters.
TxMatches(tx, a) ==
    /\ a.account_id = None \/ tx.account = a.account_id
    /\ a.status = None \/ tx.status = a.status
    /\ a.since = NoDate \/ tx.created_at >= a.since[2]
    /\ a.until = NoDate \/ tx.created_at <= a.until[2]
    /\ a.category_id = None \/ tx.category = a.category_id
    /\ a.tag_id = None \/ a.tag_id \in tx.tags

\* The listing a paginated request walks, as it is now.
Listing(op, a) ==
    CASE op = "get_accounts" -> Accounts
      [] op = "get_tags" -> Tags
      [] op = "get_transactions" -> SelectSeq(Transactions, LAMBDA tx : TxMatches(tx, a))
      [] op = "get_webhooks" -> [k \in 1..Len(webhooks) |-> WebhookObject(webhooks[k], None)]
      [] op = "get_categories" ->
            IF a.parent_id = None THEN Categories
            ELSE SelectSeq(Categories, LAMBDA c : c.parent = a.parent_id)

\* No next page.
NoNext == -1

\* One page: the records after the cursor, and the cursor of the page
\* after it.  The cursor of the webhooks listing is the creation number of
\* the last record served (the listing changes under the walk); the others
\* are positions.
PageAfter(op, a, cur) ==
    LET keyed == op = "get_webhooks"
        rest == IF keyed
                THEN SelectSeq(webhooks, LAMBDA w : w.n > cur)
                ELSE SubSeq(Listing(op, a), cur + 1, Len(Listing(op, a)))
        k == IF Len(rest) > PageSize THEN PageSize ELSE Len(rest)
    IN  [data |-> IF keyed
                  THEN [j \in 1..k |-> WebhookObject(rest[j], None)]
                  ELSE SubSeq(rest, 1, k),
         next |-> IF Len(rest) > PageSize
                  THEN (IF keyed THEN rest[k].n ELSE cur + k)
                  ELSE NoNext]

PaginatedOps == {"get_accounts", "get_tags", "get_transactions", "get_webhooks"}
ListingOps == PaginatedOps \cup {"get_categories"}

\* The answer of the service to the first request of an operation, for a
\* credential it accepts.
Answer(op, a) ==
    CASE op = "get_user_id" -> Ok(UserId)
      [] op \in PaginatedOps -> Ok(PageAfter(op, a, 0))
      [] op = "get_account" ->
            IF a.id \in Ids(Accounts) THEN Ok(ById(Accounts, a.id)) ELSE Err(NotFound)
      [] op = "get_categories" -> Ok(Listing(op, a))
      [] op = "get_category" ->
            IF a.category_id \in Ids(Categories)
            THEN Ok(ById(Categories, a.category_id)) ELSE Err(NotFound)
      [] op = "categorize_transaction" ->
            IF /\ a.transaction_id \in Ids(Transactions)
               /\ a.category_id \in Ids(Categories) \cup {None}
            THEN Ok(TRUE) ELSE Err(NotFound)
      [] op \in {"add_transaction_tags", "remove_transaction_tags"} ->
            IF a.transaction_id \in Ids(Transactions) THEN Ok(TRUE) ELSE Err(NotFound)
      [] op = "get_transaction" ->
            IF a.transaction_id \in Ids(Transactions)
            THEN Ok(ById(Transactions, a.transaction_id)) ELSE Err(NotFound)
      [] op = "create_webhook" ->
            Ok(WebhookObject([n |-> wh_counter + 1, url |-> a.url,
                              description |-> a.description, created_at |-> CreatedAtOf[wh_counter + 1]],
                             SecretKeyOf[wh_counter + 1]))
      [] op = "delete_webhook" ->
            IF a.webhook_id \in WebhookIds THEN Ok(TRUE) ELSE Err(NotFound)
      [] op = "ping_webhook" ->
            IF a.webhook_id \in WebhookIds THEN Ok(PingEvent(a.webhook_id)) ELSE Err(NotFound)

\* What a request can come back with: a transport failure, or the
\* service's word, which is a refusal for a credential it does not accept.
Service(token, answer) ==
    {Err(Transport), IF token = GoodToken THEN answer ELSE Err(NotAuthorized)}

\* The webhooks after a request that came back with r.  A request that
\* fails is taken not to have been carried out.
WebhooksAfter(op, a, r) ==
    IF ~r.ok THEN webhooks
    ELSE CASE op = "create_webhook" ->
                Append(webhooks, [n |-> wh_counter + 1, url |-> a.url,
                                  description |-> a.description, created_at |-> CreatedAtOf[wh_counter + 1]])
           [] op = "delete_webhook" ->
                SelectSeq(webhooks, LAMBDA w : WebhookIdOf[w.n] # a.webhook_id)
           [] OTHER -> webhooks

\* ---------------------------------------------------- python: str()
\* str() of the client library's objects, as the parts it is made of.
StrAccount(a) == <<"<Account '", a.name, "' (", a.type, "): ", a.balance, " ", a.currency, ">">>
StrCategory(c) == <<"<Category '", c.id, "': ", c.name, ">">>
StrTransaction(t) ==
    <<"<Transaction ", t.status, ": ", t.amount, " ", t.currency, " [", t.description, "]>">>
StrEvent(e) == <<"<WebhookEvent ", e.type, ": webhook_id='", e.webhook_id, "'>">>

\* ------------------------------------------------------------ frames
NoOutcome == [kind |-> "none"]
Return(v) == [kind |-> "return", value |-> v]
Raise(e) == [kind |-> "raise", error |-> e]

IdleFrame ==
    [pc |-> "idle", op |-> None, args |-> <<>>, client |-> 0, token |-> None,
     buf |-> <<>>, next |-> NoNext, list |-> <<>>, outcome |-> NoOutcome]

IdleHist ==
    [call_time |-> 0, since_omitted |-> FALSE, requests |-> 0, pages |-> 0,
     error |-> None, dirty |-> FALSE, include |-> {}, exclude |-> {}]

\* ------------------------------------------------- the records returned
\* get_accounts, lines 32-36.
AccountRecord(account) ==
    [id |-> account.id, name |-> account.name, balance |-> account.balance]

\* get_categories, line 59.
CategoryRecord(cat) == [id |-> cat.id, name |-> cat.name]

\* get_tags, line 90.
TagRecord(tag) == [id |-> tag.id, name |-> tag.name]

\* A summary record that keeps the id.
TransactionRecordWithId(tx, verbose) ==
    [id |-> tx.id, description |-> tx.description, amount |-> tx.amount]
       @@ (IF verbose THEN [status |-> tx.status, created_at |-> tx.created_at]
           ELSE [description |-> tx.description])

\* get_transactions, lines 156-170.
TransactionRecord(tx, verbose) ==
    IF verbose
    THEN [id |-> tx.id, description |-> tx.description, amount |-> tx.amount,
          status |-> tx.status, created_at |-> tx.created_at]
    ELSE [description |-> tx.description, amount |-> tx.amount]

\* A listing record that copies the secret key too.
WebhookRecordWithSecret(webhook) ==
    [id |-> webhook.id, url |-> webhook.url, description |-> webhook.description,
     secret_key |-> webhook.secret_key]

\* get_webhooks, lines 180-184.
WebhookRecord(webhook) ==
    [id |-> webhook.id, url |-> webhook.url, description |-> webhook.description]

\* create_webhook, lines 196-202.
CreatedWebhookRecord(webhook) ==
    [id |-> webhook.id, url |-> webhook.url, description |-> webhook.description,
     secret_key |-> webhook.secret_key, created_at |-> webhook.created_at]

\* The record a listing tool appends for one upstream object.
RecordOf(op, a, x) ==
    CASE op = "get_accounts" -> AccountRecord(x)
      [] op = "get_categories" -> CategoryRecord(x)
      [] op = "get_tags" -> TagRecord(x)
      [] op = "get_transactions" -> TransactionRecord(x, a.verbose)
      [] op = "get_webhooks" -> WebhookRecord(x)

\* A loop that stops one record short.
RecordsDropLast(op, a, xs) == [k \in 1..(Len(xs) - 1) |-> RecordOf(op, a, xs[k])]

Records(op, a, xs) == [k \in 1..Len(xs) |-> RecordOf(op, a, xs[k])]

\* What a tool that makes a single call returns for the value v.
Reshape(op, a, v) ==
    CASE op = "get_user_id" -> <<"Authorized: ", v>>
      [] op = "get_account" -> StrAccount(v)
      [] op = "get_categories" -> Records(op, a, v)
      [] op = "get_category" -> StrCategory(v)
      [] op = "get_transaction" -> StrTransaction(v)
      [] op = "create_webhook" -> CreatedWebhookRecord(v)
      [] op = "ping_webhook" -> StrEvent(v)
      [] OTHER -> v

\* get_user_id without its except clause.
OnErrorUncaught(f, e) == [f EXCEPT !.pc = "exit", !.outcome = Raise(e)]

\* A blanket except that returns what has been collected.
OnErrorSwallowed(f, e) == [f EXCEPT !.pc = "exit", !.outcome = Return(f.list)]

\* A failed request is issued again.
OnErrorRetried(f, e) ==
    IF e = Transport
    THEN [f EXCEPT !.pc = "request", !.buf = <<>>, !.next = NoNext, !.list = <<>>]
    ELSE [f EXCEPT !.pc = "exit", !.outcome = Raise(e)]

\* An upstream error e inside the with block: get_user_id catches the
\* refused credential; nothing else is caught anywhere.
OnError(f, e) ==
    IF f.op = "get_user_id" /\ e = NotAuthorized
    THEN [f EXCEPT !.pc = "exit", !.outcome = Return(<<"The token is invalid">>)]
    ELSE [f EXCEPT !.pc = "exit", !.outcome = Raise(e)]

\* The first await of the with block came back with r.
OnResponse(f, r) ==
    IF ~r.ok THEN OnError(f, r.error)
    ELSE IF f.op \in PaginatedOps
    THEN [f EXCEPT !.pc = "drain", !.buf = r.value.data, !.next = r.value.next]
    ELSE [f EXCEPT !.pc = "exit", !.outcome = Return(Reshape(f.op, f.args, r.value))]

\* A loop over the first page alone.
OnPageFirstOnly(f, r) ==
    LET list == f.list \o Records(f.op, f.args, f.buf) IN
    [f EXCEPT !.pc = "exit", !.buf = <<>>, !.list = list, !.outcome = Return(list)]

\* async for: the page at hand is appended; r is the fetch of the next
\* page, made only when there is one.
OnPage(f, r) ==
    LET list == f.list \o Records(f.op, f.args, f.buf) IN
    IF f.next = NoNext
    THEN [f EXCEPT !.pc = "exit", !.buf = <<>>, !.list = list, !.outcome = Return(list)]
    ELSE IF ~r.ok THEN OnError([f EXCEPT !.buf = <<>>, !.list = list], r.error)
    ELSE [f EXCEPT !.buf = r.value.data, !.next = r.value.next, !.list = list]

\* One client kept at module level and used by every invocation.
SessionShared(i) == 1

\* AsyncClient(token=UP_TOKEN): every invocation makes a client of its own,
\* named here by the frame that made it.
SessionFor(i) == i

\* A close() after the return value is made, with no finally.
ClientExitOnReturn(sessions, f) ==
    IF f.outcome.kind = "return" THEN sessions \ {f.client} ELSE sessions

\* __aexit__: the session is closed however the block was left.
ClientExit(sessions, f) == sessions \ {f.client}

\* What the session of frame f gets for a request whose answer would be
\* `answer`.
Responses(f, answer) ==
    IF f.client \notin open_sessions THEN {Err(SessionClosed)}
    ELSE Service(f.token, answer)

\* ------------------------------------------------------------- Init
Init ==
    /\ UP_TOKEN \in {GoodToken, BadToken}
    /\ now = 0
    /\ default_since = At(now - SinceDays)
    /\ webhooks = InitialWebhooks
    /\ wh_counter = Len(InitialWebhooks)
    /\ open_sessions = {}
    /\ calls = 0
    /\ upstream_requests = 0
    /\ created_ret = {}
    /\ deleted_ret = {}
    /\ inv = [i \in Invs |-> IdleFrame]
    /\ hist = [i \in Invs |-> IdleHist]

\* ----------------------------------------------------------- actions
\* The host dispatches a tool call to the first free frame, on day t.
\* Nothing but the dispatch of get_transactions is dated, so that is where
\* the days pass.
Start(i, opname, a, omitted, t) ==
    /\ inv[i].pc = "idle"
    /\ \A j \in Invs : j < i => inv[j].pc # "idle"
    /\ calls < MaxCalls
    /\ calls' = calls + 1
    /\ now' = t
    /\ inv' = [inv EXCEPT ![i] = [IdleFrame EXCEPT !.pc = "enter", !.op = opname, !.args = a]]
    /\ hist' = [hist EXCEPT ![i] =
                  [IdleHist EXCEPT !.call_time = t,
                                   !.since_omitted = omitted,
                                   !.include = IF opname = "get_webhooks"
                                               THEN created_ret \cap WebhookIds ELSE {},
                                   !.exclude = IF opname = "get_webhooks"
                                               THEN deleted_ret ELSE {}]]
    /\ UNCHANGED <<UP_TOKEN, default_since, webhooks, wh_counter, open_sessions,
                   upstream_requests, created_ret, deleted_ret>>

get_user_id(i) == Start(i, "get_user_id", <<>>, FALSE, now)

get_accounts(i) == Start(i, "get_accounts", <<>>, FALSE, now)

get_account(i) ==
    \E id \in {"acc-2", "invalid-account-id"} :
        Start(i, "get_account", [id |-> id], FALSE, now)

get_categories(i) ==
    \E parent_id \in {None, "booze"} :
        Start(i, "get_categories", [parent_id |-> parent_id], FALSE, now)

get_category(i) ==
    \E category_id \in {"booze"} :
        Start(i, "get_category", [category_id |-> category_id], FALSE, now)

categorize_transaction(i) ==
    \E transaction_id \in {"tx-3"}, category_id \in {None, "booze"} :
        Start(i, "categorize_transaction",
              [transaction_id |-> transaction_id, category_id |-> category_id], FALSE, now)

get_tags(i) == Start(i, "get_tags", <<>>, FALSE, now)

add_transaction_tags(i) ==
    \E transaction_id \in {"tx-3"}, tags \in {<<"tax">>} :
        Start(i, "add_transaction_tags",
              [transaction_id |-> transaction_id, tags |-> tags], FALSE, now)

remove_transaction_tags(i) ==
    \E transaction_id \in {"tx-2"}, tags \in {<<"holiday">>} :
        Start(i, "remove_transaction_tags",
              [transaction_id |-> transaction_id, tags |-> tags], FALSE, now)

get_transaction(i) ==
    \E transaction_id \in {"tx-3"} :
        Start(i, "get_transaction", [transaction_id |-> transaction_id], FALSE, now)

\* The default of `since` is the object made when the def statement ran.
get_transactions(i) ==
    \E account_id \in {None}, status \in {None},
       since \in {Omitted, At(-3)}, until \in {NoDate},
       category_id \in {None}, tag_id \in {None}, verbose \in BOOLEAN,
       t \in now..MaxTime :
        Start(i, "get_transactions",
              [account_id |-> account_id, status |-> status,
               since |-> IF since = Omitted THEN default_since ELSE since,
               until |-> until, category_id |-> category_id, tag_id |-> tag_id,
               verbose |-> verbose],
              since = Omitted, t)

get_webhooks(i) == Start(i, "get_webhooks", <<>>, FALSE, now)

create_webhook(i) ==
    \E url \in {"https://hello.example/test"}, description \in {None} :
        Start(i, "create_webhook", [url |-> url, description |-> description], FALSE, now)

delete_webhook(i) ==
    \E n \in 2..wh_counter :
        Start(i, "delete_webhook", [webhook_id |-> WebhookIdOf[n]], FALSE, now)

ping_webhook(i) ==
    \E n \in {wh_counter} :
        Start(i, "ping_webhook", [webhook_id |-> WebhookIdOf[n]], FALSE, now)

\* async with AsyncClient(token=UP_TOKEN) as client: the session opens.
Enter(i) ==
    /\ inv[i].pc = "enter"
    /\ inv' = [inv EXCEPT ![i].pc = "request", ![i].client = SessionFor(i),
                           ![i].token = UP_TOKEN]
    /\ open_sessions' = open_sessions \cup {SessionFor(i)}
    /\ UNCHANGED <<UP_TOKEN, default_since, now, webhooks, wh_counter, calls,
                   upstream_requests, created_ret, deleted_ret, hist>>

\* What the other frames record when frame i's request changes the
\* webhooks upstream.
Noted(i, f, r, j) ==
    IF j = i \/ ~r.ok \/ f.op \notin {"create_webhook", "delete_webhook"}
       \/ inv[j].op # "get_webhooks"
    THEN hist[j]
    ELSE [hist[j] EXCEPT
            !.dirty = @ \/ inv[j].pc \in {"drain", "exit", "done"},
            !.include = IF f.op = "delete_webhook" THEN @ \ {f.args.webhook_id} ELSE @]

\* await client.<call>(...): the one request of the invocation.
Request(i) ==
    LET f == inv[i] IN
    /\ f.pc = "request"
    /\ \E r \in Responses(f, Answer(f.op, f.args)) :
        /\ inv' = [inv EXCEPT ![i] = OnResponse(f, r)]
        /\ webhooks' = WebhooksAfter(f.op, f.args, r)
        /\ wh_counter' = IF r.ok /\ f.op = "create_webhook" THEN wh_counter + 1 ELSE wh_counter
        /\ upstream_requests' = IF f.client \in open_sessions
                                THEN upstream_requests + 1 ELSE upstream_requests
        /\ hist' = [j \in Invs |->
                      IF j = i
                      THEN [hist[i] EXCEPT !.requests = @ + 1, !.pages = @ + 1,
                                           !.error = IF r.ok THEN @ ELSE r.error]
                      ELSE Noted(i, f, r, j)]
    /\ UNCHANGED <<UP_TOKEN, default_since, now, open_sessions, calls, created_ret, deleted_ret>>

\* async for ... in <listing>: one page is appended, and the next one
\* fetched or the list returned.
Drain(i) ==
    LET f == inv[i] IN
    /\ f.pc = "drain"
    /\ \E r \in IF f.next = NoNext THEN {Ok(<<>>)}
                ELSE Responses(f, Ok(PageAfter(f.op, f.args, f.next))) :
        /\ inv' = [inv EXCEPT ![i] = OnPage(f, r)]
        /\ hist' = [hist EXCEPT ![i].pages = IF f.next = NoNext THEN @ ELSE @ + 1,
                                ![i].error = IF r.ok THEN @ ELSE r.error]
    /\ UNCHANGED <<UP_TOKEN, default_since, now, webhooks, wh_counter, open_sessions, calls,
                   upstream_requests, created_ret, deleted_ret>>

\* The with block is left: the session closes and the invocation ends,
\* with its value or its error.
Exit(i) ==
    LET f == inv[i] IN
    /\ f.pc = "exit"
    /\ open_sessions' = ClientExit(open_sessions, f)
    /\ inv' = [inv EXCEPT ![i] = [f EXCEPT !.pc = "done", !.buf = <<>>, !.list = <<>>,
                                           !.next = NoNext, !.token = None]]
    /\ created_ret' = IF f.op = "create_webhook" /\ f.outcome.kind = "return"
                      THEN created_ret \cup {f.outcome.value.id} ELSE created_ret
    /\ deleted_ret' = IF f.op = "delete_webhook" /\ f.outcome.kind = "return"
                      THEN deleted_ret \cup {f.args.webhook_id} ELSE deleted_ret
    /\ UNCHANGED <<UP_TOKEN, default_since, now, webhooks, wh_counter, calls,
                   upstream_requests, hist>>

\* The host takes the outcome; the frame is free again.
Reap(i) ==
    /\ inv[i].pc = "done"
    /\ inv' = [inv EXCEPT ![i] = IdleFrame]
    /\ hist' = [hist EXCEPT ![i] = IdleHist]
    /\ UNCHANGED <<UP_TOKEN, default_since, now, webhooks, wh_counter, open_sessions, calls,
                   upstream_requests, created_ret, deleted_ret>>

Next ==
    \E i \in Invs :
        \/ get_user_id(i)
        \/ get_accounts(i)
        \/ get_account(i)
        \/ get_categories(i)
        \/ get_category(i)
        \/ categorize_transaction(i)
        \/ get_tags(i)
        \/ add_transaction_tags(i)
        \/ remove_transaction_tags(i)
        \/ get_transaction(i)
        \/ get_transactions(i)
        \/ get_webhooks(i)
        \/ create_webhook(i)
        \/ delete_webhook(i)
        \/ ping_webhook(i)
        \/ Enter(i)
        \/ Request(i)
        \/ Drain(i)
        \/ Exit(i)
        \/ Reap(i)

Spec == Init /\ [][Next]_vars

\* ------------------------------------------------------------ claims
Ended(i) == inv[i].pc = "done"
Returned(i) == Ended(i) /\ inv[i].outcome.kind = "return"
Raised(i) == Ended(i) /\ inv[i].outcome.kind = "raise"
InBlock(i) == inv[i].pc \in {"request", "drain", "exit"}

\* C1: when an invocation has ended, by a return, by the sentinel of
\* get_user_id or by an upstream error (also one in the middle of a
\* listing), the session it opened is closed; when every invocation has
\* ended, no session is open.
C1_SessionClosed ==
    /\ \A i \in Invs : Ended(i) => inv[i].client \notin open_sessions
    /\ (\A i \in Invs : inv[i].pc \in {"idle", "done"}) => open_sessions = {}

\* An invocation that failed fetching the second page of its listing has
\* ended, and no session is open.
C1_Witness ==
    \E i \in Invs :
        /\ Raised(i) /\ inv[i].op \in PaginatedOps /\ hist[i].pages >= 2
        /\ inv[i].client # 0 /\ open_sessions = {}

\* C2 as stated: with a valid credential get_user_id returns "Authorized: "
\* and the user id the ping reported; with an invalid one it returns
\* exactly "The token is invalid" and never raises.
C2_AsStated ==
    \A i \in Invs : Ended(i) /\ inv[i].op = "get_user_id" =>
        /\ UP_TOKEN = GoodToken /\ hist[i].error = None =>
              inv[i].outcome = Return(<<"Authorized: ", UserId>>)
        /\ UP_TOKEN # GoodToken => inv[i].outcome = Return(<<"The token is invalid">>)

\* C2, amended: get_user_id returns "Authorized: " and the user id when the
\* ping reports one (the credential is then valid); it returns exactly
\* "The token is invalid", and raises nothing, when the ping is refused for
\* the credential; a ping that fails otherwise raises that failure.
C2_GetUserId ==
    \A i \in Invs : Ended(i) /\ inv[i].op = "get_user_id" =>
        IF hist[i].error = None
        THEN UP_TOKEN = GoodToken /\ inv[i].outcome = Return(<<"Authorized: ", UserId>>)
        ELSE IF hist[i].error = NotAuthorized
        THEN UP_TOKEN # GoodToken /\ inv[i].outcome = Return(<<"The token is invalid">>)
        ELSE inv[i].outcome = Raise(hist[i].error)

\* get_user_id has ended with the sentinel.
C2_Witness ==
    \E i \in Invs :
        /\ Returned(i) /\ inv[i].op = "get_user_id" /\ hist[i].error = NotAuthorized
        /\ inv[i].outcome.value = <<"The token is invalid">>

\* C3: when the caller leaves `since` out, the `since` sent upstream is 7
\* days before the day of that invocation.
C3_SinceAtCallTime ==
    \A i \in Invs :
        inv[i].op = "get_transactions" /\ hist[i].since_omitted /\ hist[i].requests >= 1 =>
            inv[i].args.since = At(hist[i].call_time - SinceDays)

TxArgs(i) == [inv[i].args EXCEPT !.verbose = FALSE]
SummaryKeys == {"description", "amount"}
VerboseKeys == SummaryKeys \cup {"id", "status", "created_at"}

\* C4: the records of get_transactions have the keys description and
\* amount, and with verbose also id, status and created_at; for the same
\* filters the summary list is the verbose list cut down to description and
\* amount, record by record in the same order.
C4_VerboseProjection ==
    /\ \A i \in Invs : Returned(i) /\ inv[i].op = "get_transactions" =>
          \A k \in 1..Len(inv[i].outcome.value) :
              DOMAIN inv[i].outcome.value[k] =
                  IF inv[i].args.verbose THEN VerboseKeys ELSE SummaryKeys
    /\ \A i, j \in Invs :
          /\ Returned(i) /\ inv[i].op = "get_transactions" /\ ~inv[i].args.verbose
          /\ Returned(j) /\ inv[j].op = "get_transactions" /\ inv[j].args.verbose
          /\ TxArgs(i) = TxArgs(j)
          => LET s == inv[i].outcome.value
                 v == inv[j].outcome.value
             IN  /\ Len(s) = Len(v)
                 /\ \A k \in 1..Len(s) :
                       s[k] = [description |-> v[k].description, amount |-> v[k].amount]

\* A summary and a verbose listing of the same window, of several
\* transactions, have both returned.
C4_Witness ==
    \E i, j \in Invs :
        /\ Returned(i) /\ inv[i].op = "get_transactions" /\ ~inv[i].args.verbose
        /\ Returned(j) /\ inv[j].op = "get_transactions" /\ inv[j].args.verbose
        /\ TxArgs(i) = TxArgs(j)
        /\ Len(inv[i].outcome.value) >= 2

\* C5: a get_webhooks that follows the return of create_webhook with id w
\* lists w (as long as no delete of w is sent), and one that follows the
\* return of delete_webhook(w) does not list w.
C5_WebhookRoundTrip ==
    \A i \in Invs : Returned(i) /\ inv[i].op = "get_webhooks" =>
        /\ hist[i].include \subseteq Ids(inv[i].outcome.value)
        /\ hist[i].exclude \cap Ids(inv[i].outcome.value) = {}

\* A webhook was created, then deleted, and a get_webhooks dispatched
\* after that has returned.
C5_Witness ==
    \E i \in Invs :
        /\ Returned(i) /\ inv[i].op = "get_webhooks"
        /\ hist[i].exclude \cap created_ret # {}

\* C6: but for the refused ping of get_user_id, an invocation one of whose
\* upstream requests failed ends with that error and with no result.
C6_ErrorsPropagate ==
    \A i \in Invs :
        /\ inv[i].pc \in {"exit", "done"}
        /\ hist[i].error # None
        /\ ~(inv[i].op = "get_user_id" /\ hist[i].error = NotAuthorized)
        => inv[i].outcome = Raise(hist[i].error)

\* get_account of an id that does not resolve has ended with the
\* service's error, while a listing has ended with a transport failure at
\* its second page.
C6_Witness ==
    \E i, j \in Invs :
        /\ Raised(i) /\ inv[i].op = "get_account" /\ inv[i].outcome.error = NotFound
        /\ Raised(j) /\ inv[j].op \in PaginatedOps /\ hist[j].pages >= 2
        /\ inv[j].outcome.error = Transport

\* The outcome of the frame f run to its end with nothing interleaved and
\* no transport failure.
RECURSIVE RunAlone(_)
RunAlone(f) ==
    IF f.pc = "exit" THEN f.outcome
    ELSE IF f.pc = "request"
    THEN RunAlone(OnResponse(f, IF UP_TOKEN = GoodToken THEN Answer(f.op, f.args)
                                ELSE Err(NotAuthorized)))
    ELSE RunAlone(OnPage(f, Ok(PageAfter(f.op, f.args, f.next))))

ReadOnlyOps ==
    {"get_user_id", "get_accounts", "get_account", "get_categories", "get_category",
     "get_tags", "get_transaction", "get_transactions", "get_webhooks"}

\* The state part of C7: two invocations inside their with blocks hold
\* different sessions, the session of each is open as long as it is inside
\* and carries the credential read at import, and a read-only invocation that met no transport failure, the upstream
\* state unchanged since its request, has ended as it would have run alone.
C7_Isolated ==
    /\ \A i, j \in Invs : i # j /\ InBlock(i) /\ InBlock(j) => inv[i].client # inv[j].client
    /\ \A i \in Invs : InBlock(i) => inv[i].client \in open_sessions /\ inv[i].token = UP_TOKEN
    /\ \A i \in Invs :
          /\ Ended(i) /\ inv[i].op \in ReadOnlyOps
          /\ hist[i].error # Transport /\ ~hist[i].dirty
          => inv[i].outcome =
                RunAlone([IdleFrame EXCEPT !.pc = "request", !.op = inv[i].op,
                                           !.args = inv[i].args])

\* C7: interleaved invocations share no session and no state of the
\* adapter: C7_Isolated holds in every state, and no step changes the
\* credential.
C7_NoInterference == []C7_Isolated /\ [][UP_TOKEN' = UP_TOKEN]_vars

\* A listing has returned while the other frame, interleaved with it, is
\* in the middle of its own listing, each with its own open or closed
\* session.
C7_Witness ==
    \E i, j \in Invs :
        /\ i # j
        /\ Returned(i) /\ inv[i].op \in PaginatedOps /\ Len(inv[i].outcome.value) > PageSize
        /\ inv[j].pc = "drain" /\ hist[j].pages >= 2
        /\ inv[j].client \in open_sessions /\ inv[i].client # inv[j].client

Secrets == {SecretKeyOf[n] : n \in 1..Len(SecretKeyOf)}

\* C8: the secret key of a webhook is in the result of the create_webhook
\* that made it, and of no other create_webhook; the records of
\* get_webhooks have the keys id, url and description and hold no secret
\* key, and the string of ping_webhook holds none.  (The results of the
\* other tools are made of accounts, categories, tags and transactions
\* alone.)
C8_SecretOnce ==
    /\ \A i \in Invs : Returned(i) /\ inv[i].op = "get_webhooks" =>
          \A k \in 1..Len(inv[i].outcome.value) :
              LET rec == inv[i].outcome.value[k] IN
              /\ DOMAIN rec = {"id", "url", "description"}
              /\ \A fld \in DOMAIN rec : rec[fld] \notin Secrets
    /\ \A i \in Invs : Returned(i) /\ inv[i].op = "ping_webhook" =>
          \A k \in 1..Len(inv[i].outcome.value) : inv[i].outcome.value[k] \notin Secrets
    /\ \A i \in Invs : Returned(i) /\ inv[i].op = "create_webhook" =>
          /\ inv[i].outcome.value.secret_key = SecretKeyOf[WebhookNo(inv[i].outcome.value.id)]
          /\ \A j \in Invs \ {i} : Returned(j) /\ inv[j].op = "create_webhook" =>
                inv[j].outcome.value.secret_key # inv[i].outcome.value.secret_key

\* A webhook made by create_webhook is listed by a get_webhooks that has
\* returned.
C8_Witness ==
    \E i \in Invs :
        /\ Returned(i) /\ inv[i].op = "get_webhooks"
        /\ created_ret \cap Ids(inv[i].outcome.value) # {}

\* C9: a listing tool that returns, the upstream listing unchanged under
\* it, returns one record per upstream record, in the upstream order; an
\* empty listing gives the empty sequence.
C9_ListingComplete ==
    \A i \in Invs : Returned(i) /\ inv[i].op \in ListingOps /\ ~hist[i].dirty =>
        LET got == inv[i].outcome.value
            up == Listing(inv[i].op, inv[i].args)
        IN  /\ Len(got) = Len(up)
            /\ \A k \in 1..Len(got) : \A fld \in DOMAIN got[k] : got[k][fld] = up[k][fld]

\* get_categories of a parent with no children has returned the empty
\* sequence, and a listing of more than one page has returned in full.
C9_Witness ==
    \E i, j \in Invs :
        /\ Returned(i) /\ inv[i].op = "get_categories" /\ inv[i].args.parent_id = "booze"
        /\ inv[i].outcome.value = <<>>
        /\ Returned(j) /\ inv[j].op \in PaginatedOps /\ hist[j].pages >= 2
        /\ Len(inv[j].outcome.value) > PageSize

\* C10: an invocation issues its one logical request and no other, also
\* after a failure; the requests issued are as many as the invocations
\* that have come to their request.
C10_OneRequest ==
    /\ \A i \in Invs :
          hist[i].requests = IF inv[i].pc \in {"drain", "exit", "done"} THEN 1 ELSE 0
    /\ upstream_requests = calls - Cardinality({i \in Invs : inv[i].pc \in {"enter", "request"}})

\* Several invocations have ended, one of them by a failed request, and
\* the requests are as many as the invocations.
C10_Witness ==
    /\ calls >= 2
    /\ \A i \in Invs : inv[i].pc \in {"idle", "done"}
    /\ \E i \in Invs : Raised(i) /\ hist[i].error = Transport
    /\ upstream_requests = calls

====
